---- MODULE Spec2Model ----
(***************************************************************************)
(* Deep Research client: agent/thread/run creation, the polling loop with  *)
(* the delta-response detector, the summary writer and the agent clean-up. *)
(* Line numbers refer to src/deep-research-sync.py; the loop and the two   *)
(* helper functions of src/deep-research-async.py are statement for        *)
(* statement the same.                                                     *)
(***************************************************************************)
EXTENDS Integers, Sequences, FiniteSets, TLC

\* ------------------------------------------------------------------ bounds

\* Poll iterations explored once the thread holds an agent message (the loop
\* itself has no limit).
MaxTicks == 5
\* Poll iterations explored while the thread holds no agent message yet.
MaxQuietTicks == 21
\* Poll iterations explored under any environment but the complete one.
MaxTicksOtherEnv == 0
\* Agent messages the remote thread may receive during one invocation.
MaxMsgs == 2
\* Longest citation list drawn for the direct calls of the two helpers.
MaxAnns == 3

\* ------------------------------------------------------- program constants

\* status_count % 10 == 0 selects the heartbeat line.
HeartbeatEvery == 10

\* Python's None, as last_message_id, a citation title or run.last_error.
None == "None"

\* Mutant: a failed run keeps the loop going.
ActiveStatuses_WithFailed == {"queued", "in_progress", "failed"}

\* The continue-condition of the while loop.
ActiveStatuses == {"queued", "in_progress"}

\* Run statuses the service reports; "cancelled" and "expired" stand for the
\* terminal statuses other than completed and failed.
Statuses == ActiveStatuses \cup {"completed", "failed", "cancelled", "expired"}

\* Values of run.last_error of a failed run.
Errors == {"rate_limit_exceeded", "server_error"}

\* filepath's default value.
DefaultPath == "research_summary.md"

\* ---------------------------------------------------------------- strings

\* Text is a sequence of one-character strings.
Whitespace == {" ", "\n"}

RECURSIVE LStrip(_)
LStrip(s) == IF s # <<>> /\ Head(s) \in Whitespace THEN LStrip(Tail(s)) ELSE s

RECURSIVE RStrip(_)
RStrip(s) ==
    IF s # <<>> /\ s[Len(s)] \in Whitespace
    THEN RStrip(SubSeq(s, 1, Len(s) - 1))
    ELSE s

\* str.strip()
Strip(s) == RStrip(LStrip(s))

\* sep.join(parts)
RECURSIVE Join(_, _)
Join(parts, sep) ==
    IF parts = <<>> THEN <<>>
    ELSE IF Len(parts) = 1 THEN parts[1]
    ELSE parts[1] \o sep \o Join(Tail(parts), sep)

\* [f(x) for x in s]
MapStrip(s) == [i \in 1..Len(s) |-> Strip(s[i])]

\* ------------------------------------------------------- messages, events

\* ann.url_citation
Ann(title, url) == [title |-> title, url |-> url]

\* A ThreadMessage snapshot. An Optional[ThreadMessage] is <<>> (None) or <<m>>.
Message(id, texts, anns) ==
    [id |-> id, text_messages |-> texts, url_citation_annotations |-> anns]

NoMessage == <<>>

\* One console line (or block). stamped: written by log_with_timestamp.
Event(kind, stamped) ==
    [kind |-> kind, stamped |-> stamped, text |-> <<>>, title |-> "", url |-> "",
     arg |-> "", n |-> 0]

\* log_with_timestamp(message): "[YYYY-MM-DD HH:MM:SS] message"
log_with_timestamp(kind, arg) == [Event(kind, TRUE) EXCEPT !.arg = arg]

\* print(...)
Print_(kind, arg) == [Event(kind, FALSE) EXCEPT !.arg = arg]

\* One fp.write(...) of the summary file.
Chunk(kind, text, title, url) ==
    [kind |-> kind, text |-> text, title |-> title, url |-> url]

\* The file at filepath: absent, or its chunks in write order.
NoFile == [exists |-> FALSE, content |-> <<>>]
OldFile == [exists |-> TRUE, content |-> <<Chunk("old", <<"o">>, "", "")>>]

\* One collaborator call (or file open) with what it returned.
Call(op, ret) == [op |-> op, ret |-> ret]

\* The agent messages the remote thread receives, in order of creation.
AgentTexts(k) ==
    CASE k % 3 = 1 -> << <<"a">> >>
      [] k % 3 = 2 -> << <<" ", "b", "\n">>, <<"c", " ">> >>
      [] OTHER     -> <<>>

AgentAnns(k) ==
    CASE k % 3 = 1 -> <<>>
      [] k % 3 = 2 -> <<Ann("t1", "u1"), Ann(None, "u2"), Ann("t2", "u1"), Ann("t3", "u2")>>
      [] OTHER     -> <<Ann("", "u3"), Ann("t1", "u3")>>

AgentMessage(k) == Message("msg_" \o ToString(k), AgentTexts(k), AgentAnns(k))

\* ------------------------------------------------------- helper functions

\* Mutant: the live citation lines are deduplicated by url, as the writer's are.
RECURSIVE DistinctByUrl(_, _)
DistinctByUrl(anns, seen) ==
    IF anns = <<>> THEN <<>>
    ELSE IF Head(anns).url \in seen THEN DistinctByUrl(Tail(anns), seen)
    ELSE <<Head(anns)>> \o DistinctByUrl(Tail(anns), seen \cup {Head(anns).url})

CitationLines_Deduplicated(anns) ==
    [i \in 1..Len(DistinctByUrl(anns, {})) |->
        [Print_("url_citation", "") EXCEPT !.title = DistinctByUrl(anns, {})[i].title,
                                           !.url = DistinctByUrl(anns, {})[i].url]]

\* for ann in response.url_citation_annotations: print(f"URL Citation: ...")
CitationLines(anns) ==
    [i \in 1..Len(anns) |->
        [Print_("url_citation", "") EXCEPT !.title = anns[i].title, !.url = anns[i].url]]

\* print("\n".join(t.text.value for t in response.text_messages))
BodyLine(texts) == [Print_("body", "") EXCEPT !.text = Join(texts, <<"\n">>)]

\* Mutant: a fetch that returns no message resets the last-seen id.
fetch_and_print_ForgettingOnNone(resp, last_id) ==
    IF resp = NoMessage
    THEN [ret |-> None, printed |-> <<>>]
    ELSE IF resp[1].id = last_id
    THEN [ret |-> last_id, printed |-> <<>>]
    ELSE [ret |-> resp[1].id,
          printed |-> <<log_with_timestamp("new_response", ""),
                        Print_("agent_response", ""),
                        BodyLine(resp[1].text_messages)>>
                      \o CitationLines(resp[1].url_citation_annotations)]

\* Mutant: the comparison with the last-seen id is missing.
fetch_and_print_IgnoringLastId(resp, last_id) ==
    IF resp = NoMessage
    THEN [ret |-> last_id, printed |-> <<>>]
    ELSE [ret |-> resp[1].id,
          printed |-> <<log_with_timestamp("new_response", ""),
                        Print_("agent_response", ""),
                        BodyLine(resp[1].text_messages)>>
                      \o CitationLines(resp[1].url_citation_annotations)]

\* fetch_and_print_new_agent_response, given what get_last_message_by_role
\* returned: the value returned and the lines printed.
fetch_and_print_new_agent_response(resp, last_id) ==
    IF resp = NoMessage \/ resp[1].id = last_id
    THEN [ret |-> last_id, printed |-> <<>>]
    ELSE [ret |-> resp[1].id,
          printed |-> <<log_with_timestamp("new_response", ""),
                        Print_("agent_response", ""),
                        BodyLine(resp[1].text_messages)>>
                      \o CitationLines(resp[1].url_citation_annotations)]

\* title = ann.url_citation.title or url
TitleOrUrl(ann) == IF ann.title = None \/ ann.title = "" THEN ann.url ELSE ann.title

\* Mutant: seen_urls.add(url) is missing.
RECURSIVE WriteReferences_NothingSeen(_, _)
WriteReferences_NothingSeen(anns, seen_urls) ==
    IF anns = <<>> THEN <<>>
    ELSE <<Chunk("ref", <<>>, IF Head(anns).title = None \/ Head(anns).title = ""
                              THEN Head(anns).url ELSE Head(anns).title,
                 Head(anns).url)>>
         \o WriteReferences_NothingSeen(Tail(anns), seen_urls)

\* The loop over the annotations with seen_urls: one "- [title](url)" per new url.
RECURSIVE WriteReferences(_, _)
WriteReferences(anns, seen_urls) ==
    IF anns = <<>> THEN <<>>
    ELSE LET url == Head(anns).url
             title == TitleOrUrl(Head(anns))
         IN IF url \notin seen_urls
            THEN <<Chunk("ref", <<>>, title, url)>>
                 \o WriteReferences(Tail(anns), seen_urls \cup {url})
            ELSE WriteReferences(Tail(anns), seen_urls)

\* Mutant: the segments are joined without being stripped.
TextSummary_Unstripped(texts) == Join(texts, <<"\n", "\n">>)

\* "\n\n".join([t.text.value.strip() for t in message.text_messages])
TextSummary(texts) == Join(MapStrip(texts), <<"\n", "\n">>)

\* Mutant: the heading is written whether or not there are annotations.
ReferencesSection_Always(anns) ==
    <<Chunk("heading", <<>>, "## References", "")>> \o WriteReferences(anns, {})

\* if message.url_citation_annotations: heading, then the references
ReferencesSection(anns) ==
    IF Len(anns) > 0
    THEN <<Chunk("heading", <<>>, "## References", "")>> \o WriteReferences(anns, {})
    ELSE <<>>

\* create_research_summary(message): the file afterwards, the lines printed and
\* whether the file was opened for writing.
create_research_summary(msg, f) ==
    IF msg = NoMessage
    THEN [file |-> f, opened |-> FALSE,
          printed |-> <<Print_("no_message_warning", "")>>]
    ELSE [file |-> [exists |-> TRUE,
                    content |-> <<Chunk("body", TextSummary(msg[1].text_messages), "", "")>>
                                \o ReferencesSection(msg[1].url_citation_annotations)],
          opened |-> TRUE,
          printed |-> <<Print_("summary_written", DefaultPath)>>]

\* Mutant: the heartbeat test is status_count == 10.
StatusLine_OnlyAtTen(status, count) ==
    IF count = HeartbeatEvery
    THEN [log_with_timestamp("heartbeat", status) EXCEPT !.n = count]
    ELSE Print_("run_status", status)

\* The progress line of one tick.
StatusLine(status, count) ==
    IF count % HeartbeatEvery = 0
    THEN [log_with_timestamp("heartbeat", status) EXCEPT !.n = count]
    ELSE Print_("run_status", status)

\* --------------------------------------------------------------- the state

VARIABLES
    pc,               \* the statement about to execute
    agent,            \* agent.id
    thread,           \* thread.id
    run,              \* the local Run snapshot
    last_message_id,  \* the poll state's last-seen message id
    status_count,     \* the poll state's tick count
    response,         \* what the detector's fetch returned last
    final_message,    \* what the final fetch returned
    out,              \* the console, in order
    calls,            \* collaborator calls and file opens issued, in order
    file,             \* the summary file
    posted,           \* remote: agent messages in the thread so far
    agents,           \* remote: agents that exist
    environ           \* os.environ after load_dotenv()

vars == <<pc, agent, thread, run, last_message_id, status_count, response,
          final_message, out, calls, file, posted, agents, environ>>

NoRun == [id |-> None, status |-> None, last_error |-> None]

\* A Run as the service returns it: last_error is set only on a failed run.
Runs(statuses) ==
    {r \in [id : {"run_1"}, status : statuses, last_error : Errors \cup {None}] :
        (r.status = "failed") <=> (r.last_error # None)}

\* The service moves a run forward only: queued, in_progress, then a terminal status.
RunLifecycle(status) ==
    CASE status = "queued"      -> Statuses
      [] status = "in_progress" -> Statuses \ {"queued"}
      [] OTHER                  -> {status}

\* The names read from os.environ by either entry point.
Keys ==
    {"PROJECT_ENDPOINT", "MODEL_DEPLOYMENT_NAME", "DEEP_RESEARCH_MODEL_DEPLOYMENT_NAME",
     "BING_CONNECTION_ID", "BING_RESOURCE_NAME", "AZURE_BING_CONNECTION_ID"}

\* The value a name has when it is set.
ValueOf(k) ==
    CASE k = "BING_CONNECTION_ID"       -> "conn_1"
      [] k = "AZURE_BING_CONNECTION_ID" -> "conn_1"
      [] k = "BING_RESOURCE_NAME"       -> "bing_1"
      [] OTHER                          -> "set"

\* Every name set.
FullConfig == [k \in Keys |-> ValueOf(k)]

\* Any subset of the names set; BING_CONNECTION_ID may also be set to blanks.
Environs ==
    LET plain == {[k \in S |-> ValueOf(k)] : S \in SUBSET Keys}
    IN plain \cup {[e EXCEPT !["BING_CONNECTION_ID"] = " "] :
                      e \in {x \in plain : "BING_CONNECTION_ID" \in DOMAIN x}}

\* "K" in os.environ
Has(k) == k \in DOMAIN environ

\* "BING_CONNECTION_ID" in os.environ and os.environ["BING_CONNECTION_ID"].strip()
HasConnectionId ==
    Has("BING_CONNECTION_ID") /\ environ["BING_CONNECTION_ID"] \notin {"", " "}

\* What project_client.connections.list() may return: the connection names.
ConnectionLists == {<<>>, <<"other">>, <<"other", "bing_1">>}

\* The exploration's cap on the tick count.
TickLimit ==
    IF environ # FullConfig THEN MaxTicksOtherEnv
    ELSE IF posted = 0 THEN MaxQuietTicks ELSE MaxTicks

\* get_last_message_by_role(thread_id, role=AGENT) when k agent messages exist.
\* Mutant: the fetch returns the oldest agent message of the thread.
get_last_message_Oldest(k) == IF k = 0 THEN NoMessage ELSE <<AgentMessage(1)>>

get_last_message_by_role(k) == IF k = 0 THEN NoMessage ELSE <<AgentMessage(k)>>

IdOf(m) == IF m = NoMessage THEN None ELSE m[1].id

Init ==
    /\ pc = "client"
    /\ environ \in Environs
    /\ agent = None
    /\ thread = None
    /\ run = NoRun
    /\ last_message_id = None
    /\ status_count = 0
    /\ response = NoMessage
    /\ final_message = NoMessage
    /\ out = <<>>
    /\ calls = <<>>
    /\ file \in {NoFile, OldFile}
    /\ posted = 0
    /\ agents = {}

\* ------------------------------------------------------------ the program

\* project_client = AIProjectClient(endpoint=os.environ["PROJECT_ENDPOINT"], ...)
NewClient ==
    /\ pc = "client"
    /\ Has("PROJECT_ENDPOINT")
    /\ pc' = "bing_connection"
    /\ UNCHANGED <<environ, agent, thread, run, last_message_id, status_count,
                   response, final_message, out, calls, file, posted, agents>>

\* if BING_CONNECTION_ID is set and not blank: conn_id from it, log;
\* else: log, and on to the look-up.
ConnectionId ==
    /\ pc = "bing_connection"
    /\ IF HasConnectionId
       THEN /\ out' = Append(out, log_with_timestamp("connection_from_env",
                                                     environ["BING_CONNECTION_ID"]))
            /\ pc' = "tool"
       ELSE /\ out' = Append(out, log_with_timestamp("connection_not_set", ""))
            /\ pc' = "resolve_connection"
    /\ UNCHANGED <<environ, agent, thread, run, last_message_id, status_count,
                   response, final_message, calls, file, posted, agents>>

\* The three lines of the except clause, before exit(1).
ResolutionFailedLog ==
    <<log_with_timestamp("connection_lookup_failed", ""),
      log_with_timestamp("connection_hint_portal", ""),
      log_with_timestamp("connection_hint_path", "")>>

\* The try block given what connections.list() returned: the lines logged and
\* whether conn_id was found. Reading BING_RESOURCE_NAME when it is not set
\* raises KeyError, which the except clause catches.
ResolveIn(names) ==
    IF ~Has("BING_RESOURCE_NAME")
    THEN [found |-> FALSE, printed |-> ResolutionFailedLog]
    ELSE IF \E i \in 1..Len(names) : names[i] = environ["BING_RESOURCE_NAME"]
    THEN [found |-> TRUE,
          printed |-> <<log_with_timestamp("connection_resolved",
                                           environ["BING_RESOURCE_NAME"])>>]
    ELSE [found |-> FALSE,
          printed |-> <<log_with_timestamp("connection_not_found",
                                           environ["BING_RESOURCE_NAME"])>>]

\* try: connections = project_client.connections.list(); search; except: exit(1)
ResolveConnection ==
    /\ pc = "resolve_connection"
    /\ \/ \E names \in ConnectionLists :
            /\ calls' = Append(calls, Call("list_connections", ToString(Len(names))))
            /\ out' = out \o ResolveIn(names).printed
            /\ pc' = IF ResolveIn(names).found THEN "tool" ELSE "exited"
       \/ /\ calls' = Append(calls, Call("list_connections", "raised"))
          /\ out' = out \o ResolutionFailedLog
          /\ pc' = "exited"
    /\ UNCHANGED <<environ, agent, thread, run, last_message_id, status_count,
                   response, final_message, file, posted, agents>>

\* Mutant: the tool is built without reading the deep-research model name.
NewTool_WithoutModel ==
    /\ pc = "tool"
    /\ pc' = "create_agent"
    /\ UNCHANGED <<environ, agent, thread, run, last_message_id, status_count,
                   response, final_message, out, calls, file, posted, agents>>

\* deep_research_tool = DeepResearchTool(..., os.environ["DEEP_RESEARCH_MODEL_..."])
NewTool ==
    /\ pc = "tool"
    /\ Has("DEEP_RESEARCH_MODEL_DEPLOYMENT_NAME")
    /\ pc' = "create_agent"
    /\ UNCHANGED <<environ, agent, thread, run, last_message_id, status_count,
                   response, final_message, out, calls, file, posted, agents>>

\* The name each statement reads with os.environ[...] outside any try block.
KeyReadAt ==
    [client |-> "PROJECT_ENDPOINT", tool |-> "DEEP_RESEARCH_MODEL_DEPLOYMENT_NAME",
     create_agent |-> "MODEL_DEPLOYMENT_NAME"]

\* os.environ[...] raises KeyError: nothing catches it, the script ends there.
KeyErrorEscapes ==
    /\ pc \in DOMAIN KeyReadAt
    /\ ~Has(KeyReadAt[pc])
    /\ pc' = "aborted"
    /\ UNCHANGED <<environ, agent, thread, run, last_message_id, status_count,
                   response, final_message, out, calls, file, posted, agents>>

\* agent = agents_client.create_agent(model=os.environ["MODEL_DEPLOYMENT_NAME"], ...); log
CreateAgent ==
    /\ pc = "create_agent"
    /\ Has("MODEL_DEPLOYMENT_NAME")
    /\ agent' = "asst_1"
    /\ agents' = agents \cup {"asst_1"}
    /\ calls' = Append(calls, Call("create_agent", "asst_1"))
    /\ out' = Append(out, log_with_timestamp("agent_created", "asst_1"))
    /\ pc' = "create_thread"
    /\ UNCHANGED <<environ, thread, run, last_message_id, status_count, response,
                   final_message, file, posted>>

\* thread = agents_client.threads.create(); log
CreateThread ==
    /\ pc = "create_thread"
    /\ thread' = "thread_1"
    /\ calls' = Append(calls, Call("create_thread", "thread_1"))
    /\ out' = Append(out, log_with_timestamp("thread_created", "thread_1"))
    /\ pc' = "create_message"
    /\ UNCHANGED <<environ, agent, run, last_message_id, status_count, response,
                   final_message, file, posted, agents>>

\* message = agents_client.messages.create(role="user", ...); two log lines
CreateMessage ==
    /\ pc = "create_message"
    /\ calls' = Append(calls, Call("create_message", "umsg_1"))
    /\ out' = out \o <<log_with_timestamp("message_created", "umsg_1"),
                       log_with_timestamp("start", "")>>
    /\ pc' = "create_run"
    /\ UNCHANGED <<environ, agent, thread, run, last_message_id, status_count, response,
                   final_message, file, posted, agents>>

\* run = agents_client.runs.create(...); last_message_id = None; status_count = 0
CreateRun ==
    /\ pc = "create_run"
    /\ \E r \in Runs(Statuses) :
        /\ run' = r
        /\ calls' = Append(calls, Call("create_run", r.status))
    /\ last_message_id' = None
    /\ status_count' = 0
    /\ pc' = "loop_test"
    /\ UNCHANGED <<environ, agent, thread, response, final_message, out, file, posted, agents>>

\* while run.status in ("queued", "in_progress"): time.sleep(1)
LoopEnter ==
    /\ pc = "loop_test"
    /\ run.status \in ActiveStatuses
    /\ status_count < TickLimit
    /\ calls' = Append(calls, Call("sleep", "1"))
    /\ pc' = "get_run"
    /\ UNCHANGED <<environ, agent, thread, run, last_message_id, status_count, response,
                   final_message, out, file, posted, agents>>

\* Mutant: each poll starts a new run and reads its status.
GetRun_NewRun ==
    /\ pc = "get_run"
    /\ \E r \in Runs(RunLifecycle(run.status)) :
        /\ run' = r
        /\ calls' = calls \o <<Call("create_run", r.status), Call("get_run", r.status)>>
    /\ pc' = "incr"
    /\ UNCHANGED <<environ, agent, thread, last_message_id, status_count, response,
                   final_message, out, file, posted, agents>>

\* run = agents_client.runs.get(thread_id=thread.id, run_id=run.id)
GetRun ==
    /\ pc = "get_run"
    /\ \E r \in Runs(RunLifecycle(run.status)) :
        /\ run' = r
        /\ calls' = Append(calls, Call("get_run", r.status))
    /\ pc' = "incr"
    /\ UNCHANGED <<environ, agent, thread, last_message_id, status_count, response,
                   final_message, out, file, posted, agents>>

\* Mutant: the tick count advances by two.
Incr_ByTwo ==
    /\ pc = "incr"
    /\ status_count' = status_count + 2
    /\ pc' = "detect"
    /\ UNCHANGED <<environ, agent, thread, run, last_message_id, response, final_message,
                   out, calls, file, posted, agents>>

\* status_count += 1
Incr ==
    /\ pc = "incr"
    /\ status_count' = status_count + 1
    /\ pc' = "detect"
    /\ UNCHANGED <<environ, agent, thread, run, last_message_id, response, final_message,
                   out, calls, file, posted, agents>>

\* last_message_id = fetch_and_print_new_agent_response(...); the remote thread
\* may have received further agent messages before the fetch.
Detect ==
    /\ pc = "detect"
    /\ \E k \in posted..MaxMsgs :
        LET resp == get_last_message_by_role(k)
            res == fetch_and_print_new_agent_response(resp, last_message_id)
        IN /\ posted' = k
           /\ response' = resp
           /\ calls' = Append(calls, Call("get_last_message_by_role", IdOf(resp)))
           /\ last_message_id' = res.ret
           /\ out' = out \o res.printed
    /\ pc' = "report"
    /\ UNCHANGED <<environ, agent, thread, run, status_count, final_message, file, agents>>

\* if status_count % 10 == 0: log_with_timestamp(...) else: print(...)
Report ==
    /\ pc = "report"
    /\ out' = Append(out, StatusLine(run.status, status_count))
    /\ pc' = "loop_test"
    /\ UNCHANGED <<environ, agent, thread, run, last_message_id, status_count, response,
                   final_message, calls, file, posted, agents>>

\* Mutant: the loop gives up after three ticks.
LoopExit_AfterThreeTicks ==
    /\ pc = "loop_test"
    /\ run.status \notin ActiveStatuses \/ status_count >= 3
    /\ out' = Append(out, log_with_timestamp("run_finished", run.status))
    /\ pc' = "check_failed"
    /\ UNCHANGED <<environ, agent, thread, run, last_message_id, status_count, response,
                   final_message, calls, file, posted, agents>>

\* The loop condition is false: log_with_timestamp("run finished ...")
LoopExit ==
    /\ pc = "loop_test"
    /\ run.status \notin ActiveStatuses
    /\ out' = Append(out, log_with_timestamp("run_finished", run.status))
    /\ pc' = "check_failed"
    /\ UNCHANGED <<environ, agent, thread, run, last_message_id, status_count, response,
                   final_message, calls, file, posted, agents>>

\* Mutant: the failure line carries the status, not run.last_error.
FailureLog_Status(r) ==
    IF r.status = "failed" THEN <<log_with_timestamp("run_failed", r.status)>> ELSE <<>>

\* Mutant: the failure line is written for every run that did not complete.
FailureLog_NotCompleted(r) ==
    IF r.status # "completed" THEN <<log_with_timestamp("run_failed", r.last_error)>> ELSE <<>>

\* if run.status == "failed": log_with_timestamp(run.last_error)
FailureLog(r) ==
    IF r.status = "failed" THEN <<log_with_timestamp("run_failed", r.last_error)>> ELSE <<>>

CheckFailed ==
    /\ pc = "check_failed"
    /\ out' = out \o FailureLog(run)
    /\ pc' = "final_fetch"
    /\ UNCHANGED <<environ, agent, thread, run, last_message_id, status_count, response,
                   final_message, calls, file, posted, agents>>

\* Mutant: the final message is the one the last tick fetched.
FinalFetch_Stale ==
    /\ pc = "final_fetch"
    /\ \E k \in posted..MaxMsgs :
        /\ posted' = k
        /\ final_message' = response
        /\ calls' = Append(calls, Call("get_last_message_by_role",
                                       IdOf(get_last_message_by_role(k))))
    /\ out' = Append(out, log_with_timestamp("fetching_final", ""))
    /\ pc' = "summary"
    /\ UNCHANGED <<environ, agent, thread, run, last_message_id, status_count, response,
                   file, agents>>

\* log; final_message = agents_client.messages.get_last_message_by_role(...)
FinalFetch ==
    /\ pc = "final_fetch"
    /\ \E k \in posted..MaxMsgs :
        /\ posted' = k
        /\ final_message' = get_last_message_by_role(k)
        /\ calls' = Append(calls, Call("get_last_message_by_role",
                                       IdOf(get_last_message_by_role(k))))
    /\ out' = Append(out, log_with_timestamp("fetching_final", ""))
    /\ pc' = "summary"
    /\ UNCHANGED <<environ, agent, thread, run, last_message_id, status_count, response,
                   file, agents>>

\* Mutant: create_research_summary is called without the test of final_message.
SummaryStep_Unguarded(msg, f) ==
    LET res == create_research_summary(msg, f)
    IN [res EXCEPT !.printed = <<log_with_timestamp("creating_summary", "")>> \o @]

\* if final_message: log; create_research_summary(final_message)
SummaryStep(msg, f) ==
    IF msg # NoMessage
    THEN LET res == create_research_summary(msg, f)
         IN [res EXCEPT !.printed = <<log_with_timestamp("creating_summary", "")>> \o @]
    ELSE [file |-> f, opened |-> FALSE, printed |-> <<>>]

Summary ==
    /\ pc = "summary"
    /\ LET res == SummaryStep(final_message, file)
       IN /\ file' = res.file
          /\ out' = out \o res.printed
          /\ calls' = IF res.opened THEN Append(calls, Call("open", DefaultPath)) ELSE calls
    /\ pc' = "delete_agent"
    /\ UNCHANGED <<environ, agent, thread, run, last_message_id, status_count, response,
                   final_message, posted, agents>>

\* agents_client.delete_agent(agent.id); log
DeleteAgent ==
    /\ pc = "delete_agent"
    /\ agents' = agents \ {agent}
    /\ calls' = Append(calls, Call("delete_agent", agent))
    /\ out' = Append(out, log_with_timestamp("agent_deleted", ""))
    /\ pc' = "done"
    /\ UNCHANGED <<environ, agent, thread, run, last_message_id, status_count, response,
                   final_message, file, posted>>

\* The statements that call a collaborator, and the call each makes.
RemoteCallAt ==
    [create_agent |-> "create_agent", create_thread |-> "create_thread",
     create_message |-> "create_message", create_run |-> "create_run",
     get_run |-> "get_run", detect |-> "get_last_message_by_role",
     final_fetch |-> "get_last_message_by_role", delete_agent |-> "delete_agent"]

\* Mutant: a failing call is logged before it ends the script.
RemoteCallFails_Logged ==
    /\ pc \in DOMAIN RemoteCallAt
    /\ pc \in DOMAIN KeyReadAt => Has(KeyReadAt[pc])
    /\ calls' = Append(calls, Call(RemoteCallAt[pc], "raised"))
    /\ out' = (IF pc = "final_fetch"
               THEN Append(out, log_with_timestamp("fetching_final", ""))
               ELSE out) \o <<log_with_timestamp("call_failed", RemoteCallAt[pc])>>
    /\ pc' = "aborted"
    /\ UNCHANGED <<environ, agent, thread, run, last_message_id, status_count, response,
                   final_message, file, posted, agents>>

\* Mutant: a failing call is followed by the deletion of the agent, as a
\* try/finally around the script body would do.
RemoteCallFails_Cleanup ==
    /\ pc \in DOMAIN RemoteCallAt
    /\ pc \in DOMAIN KeyReadAt => Has(KeyReadAt[pc])
    /\ calls' = IF agent # None /\ pc # "delete_agent"
                THEN calls \o <<Call(RemoteCallAt[pc], "raised"), Call("delete_agent", agent)>>
                ELSE Append(calls, Call(RemoteCallAt[pc], "raised"))
    /\ agents' = IF pc # "delete_agent" THEN agents \ {agent} ELSE agents
    /\ out' = IF pc = "final_fetch"
              THEN Append(out, log_with_timestamp("fetching_final", ""))
              ELSE out
    /\ pc' = "aborted"
    /\ UNCHANGED <<environ, agent, thread, run, last_message_id, status_count, response,
                   final_message, file, posted>>

\* A collaborator call raises: nothing catches it, the script ends there.
RemoteCallFails ==
    /\ pc \in DOMAIN RemoteCallAt
    /\ pc \in DOMAIN KeyReadAt => Has(KeyReadAt[pc])
    /\ calls' = Append(calls, Call(RemoteCallAt[pc], "raised"))
    /\ out' = IF pc = "final_fetch"
              THEN Append(out, log_with_timestamp("fetching_final", ""))
              ELSE out
    /\ pc' = "aborted"
    /\ UNCHANGED <<environ, agent, thread, run, last_message_id, status_count, response,
                   final_message, file, posted, agents>>

\* open() or fp.write() raises: the file is untouched (open failed) or left
\* truncated (a write failed).
FileWriteFails ==
    /\ pc = "summary"
    /\ final_message # NoMessage
    /\ \E f \in {file, [exists |-> TRUE, content |-> <<>>]} : file' = f
    /\ calls' = Append(calls, Call("open", "raised"))
    /\ out' = Append(out, log_with_timestamp("creating_summary", ""))
    /\ pc' = "aborted"
    /\ UNCHANGED <<environ, agent, thread, run, last_message_id, status_count, response,
                   final_message, posted, agents>>

Next ==
    \/ NewClient
    \/ ConnectionId
    \/ ResolveConnection
    \/ NewTool
    \/ KeyErrorEscapes
    \/ CreateAgent
    \/ CreateThread
    \/ CreateMessage
    \/ CreateRun
    \/ LoopEnter
    \/ GetRun
    \/ Incr
    \/ Detect
    \/ Report
    \/ LoopExit
    \/ CheckFailed
    \/ FinalFetch
    \/ Summary
    \/ DeleteAgent
    \/ RemoteCallFails
    \/ FileWriteFails

Spec == Init /\ [][Next]_vars

\* The script is one sequential process: a statement that can execute does.
SpecFair == Init /\ [][Next]_vars /\ WF_vars(Next)

\* ------------------------------------------- the asynchronous entry point
\* main() of the asynchronous script, as a transition function over a record
\* of its state: each operator takes the state before a statement and gives
\* the set of states after it (empty when the statement is not the one to
\* execute).

\* The detector: await get_last_message_by_role; same test, same lines.
async_fetch_and_print_new_agent_response(resp, last_id) ==
    IF resp = NoMessage \/ resp[1].id = last_id
    THEN [ret |-> last_id, printed |-> <<>>]
    ELSE [ret |-> resp[1].id,
          printed |-> <<log_with_timestamp("new_response", ""),
                        Print_("agent_response", ""),
                        [Print_("body", "") EXCEPT
                            !.text = Join(resp[1].text_messages, <<"\n">>)]>>
                      \o [i \in 1..Len(resp[1].url_citation_annotations) |->
                            [Print_("url_citation", "") EXCEPT
                                !.title = resp[1].url_citation_annotations[i].title,
                                !.url = resp[1].url_citation_annotations[i].url]]]

\* The writer: the same statements as in the synchronous script.
async_create_research_summary(msg, f) ==
    IF msg = NoMessage
    THEN [file |-> f, opened |-> FALSE,
          printed |-> <<Print_("no_message_warning", "")>>]
    ELSE [file |-> [exists |-> TRUE,
                    content |-> <<Chunk("body", Join(MapStrip(msg[1].text_messages),
                                                     <<"\n", "\n">>), "", "")>>
                                \o (IF Len(msg[1].url_citation_annotations) > 0
                                    THEN <<Chunk("heading", <<>>, "## References", "")>>
                                         \o WriteReferences(msg[1].url_citation_annotations, {})
                                    ELSE <<>>)],
          opened |-> TRUE,
          printed |-> <<Print_("summary_written", DefaultPath)>>]

\* The state at the first statement of main().
AsyncInit(env, f) ==
    [pc |-> "start", agent |-> None, thread |-> None, run |-> NoRun,
     last_message_id |-> None, status_count |-> 0, response |-> NoMessage,
     final_message |-> NoMessage, out |-> <<>>, calls |-> <<>>, file |-> f,
     posted |-> 0, agents |-> {}, environ |-> env]

\* log_with_timestamp("Deep Research (async) starts")
AsyncStart(a) ==
    IF a.pc = "start"
    THEN {[a EXCEPT !.out = Append(@, log_with_timestamp("async_start", "")),
                    !.pc = "client"]}
    ELSE {}

\* project_client = AIProjectClient(endpoint=os.environ["PROJECT_ENDPOINT"], ...); log
AsyncNewClient(a) ==
    IF a.pc = "client" /\ "PROJECT_ENDPOINT" \in DOMAIN a.environ
    THEN {[a EXCEPT !.out = Append(@, log_with_timestamp("client_ready", "")),
                    !.pc = "tool"]}
    ELSE {}

\* The names DeepResearchTool(...) reads.
AsyncToolKeys == {"AZURE_BING_CONNECTION_ID", "DEEP_RESEARCH_MODEL_DEPLOYMENT_NAME"}

\* log; deep_research_tool = DeepResearchTool(os.environ[...], os.environ[...]); log
AsyncNewTool(a) ==
    IF a.pc = "tool" /\ AsyncToolKeys \subseteq DOMAIN a.environ
    THEN {[a EXCEPT !.out = @ \o <<log_with_timestamp("tool_init", ""),
                                   log_with_timestamp("tool_ready",
                                       a.environ["DEEP_RESEARCH_MODEL_DEPLOYMENT_NAME"])>>,
                    !.pc = "create_agent"]}
    ELSE {}

\* os.environ[...] raises KeyError in main(): nothing catches it. The line
\* logged before DeepResearchTool(...) is out by then.
AsyncKeyErrorEscapes(a) ==
    CASE a.pc = "client" /\ "PROJECT_ENDPOINT" \notin DOMAIN a.environ ->
            {[a EXCEPT !.pc = "aborted"]}
      [] a.pc = "tool" /\ ~(AsyncToolKeys \subseteq DOMAIN a.environ) ->
            {[a EXCEPT !.out = Append(@, log_with_timestamp("tool_init", "")),
                       !.pc = "aborted"]}
      [] a.pc = "create_agent" /\ "MODEL_DEPLOYMENT_NAME" \notin DOMAIN a.environ ->
            {[a EXCEPT !.pc = "aborted"]}
      [] OTHER -> {}

\* agent = await agents_client.create_agent(...); log
AsyncCreateAgent(a) ==
    IF a.pc = "create_agent" /\ "MODEL_DEPLOYMENT_NAME" \in DOMAIN a.environ
    THEN {[a EXCEPT !.agent = "asst_1",
                    !.agents = @ \cup {"asst_1"},
                    !.calls = Append(@, Call("create_agent", "asst_1")),
                    !.out = Append(@, log_with_timestamp("agent_created", "asst_1")),
                    !.pc = "create_thread"]}
    ELSE {}

\* thread = await agents_client.threads.create(); log
AsyncCreateThread(a) ==
    IF a.pc = "create_thread"
    THEN {[a EXCEPT !.thread = "thread_1",
                    !.calls = Append(@, Call("create_thread", "thread_1")),
                    !.out = Append(@, log_with_timestamp("thread_created", "thread_1")),
                    !.pc = "create_message"]}
    ELSE {}

\* message = await agents_client.messages.create(...); two log lines
AsyncCreateMessage(a) ==
    IF a.pc = "create_message"
    THEN {[a EXCEPT !.calls = Append(@, Call("create_message", "umsg_1")),
                    !.out = @ \o <<log_with_timestamp("message_created", "umsg_1"),
                                   log_with_timestamp("start", "")>>,
                    !.pc = "create_run"]}
    ELSE {}

\* run = await agents_client.runs.create(...); last_message_id = None; status_count = 0
AsyncCreateRun(a) ==
    IF a.pc = "create_run"
    THEN {[a EXCEPT !.run = r,
                    !.calls = Append(@, Call("create_run", r.status)),
                    !.last_message_id = None,
                    !.status_count = 0,
                    !.pc = "loop_test"] : r \in Runs(Statuses)}
    ELSE {}

\* The exploration's cap on the tick count, for the asynchronous script.
AsyncTickLimit(a) ==
    IF a.environ # FullConfig THEN MaxTicksOtherEnv
    ELSE IF a.posted = 0 THEN MaxQuietTicks ELSE MaxTicks

\* while run.status in ("queued", "in_progress"): await asyncio.sleep(1)
AsyncLoopEnter(a) ==
    IF /\ a.pc = "loop_test"
       /\ a.run.status \in {"queued", "in_progress"}
       /\ a.status_count < AsyncTickLimit(a)
    THEN {[a EXCEPT !.calls = Append(@, Call("sleep", "1")), !.pc = "get_run"]}
    ELSE {}

\* run = await agents_client.runs.get(thread_id=thread.id, run_id=run.id)
AsyncGetRun(a) ==
    IF a.pc = "get_run"
    THEN {[a EXCEPT !.run = r,
                    !.calls = Append(@, Call("get_run", r.status)),
                    !.pc = "incr"] : r \in Runs(RunLifecycle(a.run.status))}
    ELSE {}

\* status_count += 1
AsyncIncr(a) ==
    IF a.pc = "incr"
    THEN {[a EXCEPT !.status_count = @ + 1, !.pc = "detect"]}
    ELSE {}

\* last_message_id = await fetch_and_print_new_agent_response(...)
AsyncDetect(a) ==
    IF a.pc = "detect"
    THEN {LET resp == get_last_message_by_role(k)
              res == async_fetch_and_print_new_agent_response(resp, a.last_message_id)
          IN [a EXCEPT !.posted = k,
                       !.response = resp,
                       !.calls = Append(@, Call("get_last_message_by_role", IdOf(resp))),
                       !.last_message_id = res.ret,
                       !.out = @ \o res.printed,
                       !.pc = "report"] : k \in a.posted..MaxMsgs}
    ELSE {}

\* if status_count % 10 == 0: log_with_timestamp(...) else: print(...)
AsyncReport(a) ==
    IF a.pc = "report"
    THEN {[a EXCEPT !.out = Append(@,
                        IF a.status_count % 10 = 0
                        THEN [log_with_timestamp("heartbeat", a.run.status)
                                EXCEPT !.n = a.status_count]
                        ELSE Print_("run_status", a.run.status)),
                    !.pc = "loop_test"]}
    ELSE {}

\* The loop condition is false: log_with_timestamp("run finished ...")
AsyncLoopExit(a) ==
    IF a.pc = "loop_test" /\ a.run.status \notin {"queued", "in_progress"}
    THEN {[a EXCEPT !.out = Append(@, log_with_timestamp("run_finished", a.run.status)),
                    !.pc = "check_failed"]}
    ELSE {}

\* Mutant: the asynchronous script does not log the failure of the run.
AsyncCheckFailed_Silent(a) ==
    IF a.pc = "check_failed" THEN {[a EXCEPT !.pc = "final_fetch"]} ELSE {}

\* if run.status == "failed": log_with_timestamp(run.last_error)
AsyncCheckFailed(a) ==
    IF a.pc = "check_failed"
    THEN {[a EXCEPT !.out = IF a.run.status = "failed"
                            THEN Append(@, log_with_timestamp("run_failed", a.run.last_error))
                            ELSE @,
                    !.pc = "final_fetch"]}
    ELSE {}

\* log; final_message = await agents_client.messages.get_last_message_by_role(...)
AsyncFinalFetch(a) ==
    IF a.pc = "final_fetch"
    THEN {[a EXCEPT !.posted = k,
                    !.final_message = get_last_message_by_role(k),
                    !.calls = Append(@, Call("get_last_message_by_role",
                                             IdOf(get_last_message_by_role(k)))),
                    !.out = Append(@, log_with_timestamp("fetching_final", "")),
                    !.pc = "summary"] : k \in a.posted..MaxMsgs}
    ELSE {}

\* if final_message: log; create_research_summary(final_message)
AsyncSummary(a) ==
    IF a.pc # "summary" THEN {}
    ELSE IF a.final_message = NoMessage THEN {[a EXCEPT !.pc = "delete_agent"]}
    ELSE LET res == async_create_research_summary(a.final_message, a.file)
         IN {[a EXCEPT !.file = res.file,
                       !.out = @ \o <<log_with_timestamp("creating_summary", "")>>
                                 \o res.printed,
                       !.calls = IF res.opened THEN Append(@, Call("open", DefaultPath))
                                 ELSE @,
                       !.pc = "delete_agent"]}

\* await agents_client.delete_agent(agent.id); log
AsyncDeleteAgent(a) ==
    IF a.pc = "delete_agent"
    THEN {[a EXCEPT !.agents = @ \ {a.agent},
                    !.calls = Append(@, Call("delete_agent", a.agent)),
                    !.out = Append(@, log_with_timestamp("agent_deleted", "")),
                    !.pc = "done"]}
    ELSE {}

\* The statements of main() that await a collaborator, and the call each makes.
AsyncRemoteCallAt ==
    [create_agent |-> "create_agent", create_thread |-> "create_thread",
     create_message |-> "create_message", create_run |-> "create_run",
     get_run |-> "get_run", detect |-> "get_last_message_by_role",
     final_fetch |-> "get_last_message_by_role", delete_agent |-> "delete_agent"]

\* An awaited collaborator call raises: nothing in main() catches it.
AsyncRemoteCallFails(a) ==
    IF /\ a.pc \in DOMAIN AsyncRemoteCallAt
       /\ a.pc = "create_agent" => "MODEL_DEPLOYMENT_NAME" \in DOMAIN a.environ
    THEN {[a EXCEPT !.calls = Append(@, Call(AsyncRemoteCallAt[a.pc], "raised")),
                    !.out = IF a.pc = "final_fetch"
                            THEN Append(@, log_with_timestamp("fetching_final", ""))
                            ELSE @,
                    !.pc = "aborted"]}
    ELSE {}

\* open() or fp.write() raises inside create_research_summary.
AsyncFileWriteFails(a) ==
    IF a.pc = "summary" /\ a.final_message # NoMessage
    THEN {[a EXCEPT !.file = f,
                    !.calls = Append(@, Call("open", "raised")),
                    !.out = Append(@, log_with_timestamp("creating_summary", "")),
                    !.pc = "aborted"] : f \in {a.file, [exists |-> TRUE, content |-> <<>>]}}
    ELSE {}

\* Every state main() can be in after one more statement.
AsyncNext(a) ==
    AsyncStart(a) \cup AsyncNewClient(a) \cup AsyncNewTool(a) \cup AsyncKeyErrorEscapes(a)
    \cup AsyncCreateAgent(a) \cup AsyncCreateThread(a) \cup AsyncCreateMessage(a)
    \cup AsyncCreateRun(a) \cup AsyncLoopEnter(a) \cup AsyncGetRun(a) \cup AsyncIncr(a)
    \cup AsyncDetect(a) \cup AsyncReport(a) \cup AsyncLoopExit(a) \cup AsyncCheckFailed(a)
    \cup AsyncFinalFetch(a) \cup AsyncSummary(a) \cup AsyncDeleteAgent(a)
    \cup AsyncRemoteCallFails(a) \cup AsyncFileWriteFails(a)

\* The start-up of main() run to its end: the state at create_agent, or the
\* state in which a KeyError ended it. No step of the start-up has a choice.
RECURSIVE AsyncStartup(_)
AsyncStartup(a) ==
    IF a.pc \in {"start", "client", "tool"} /\ AsyncNext(a) # {}
    THEN AsyncStartup(CHOOSE t \in AsyncNext(a) : TRUE)
    ELSE a

\* ------------------------------------- the two helpers, called directly

UnitTitles == {None, "", "t1", "t2"}
UnitUrls == {"u1", "u2"}
UnitAnns == {Ann(t, u) : t \in UnitTitles, u \in UnitUrls}
UnitTexts == {<<>>, << <<" ", "a">>, <<"b", "\n">> >>}

SeqsUpTo(S, n) == UNION {[1..k -> S] : k \in 0..n}

\* The arguments drawn: no message, or a message with any citation list.
UnitMessages ==
    {NoMessage} \cup
    {<<Message("msg_1", t, a)>> : t \in UnitTexts, a \in SeqsUpTo(UnitAnns, MaxAnns)}

InitUnit ==
    /\ pc = "call"
    /\ environ = FullConfig
    /\ \E m \in UnitMessages : response = m /\ final_message = m
    /\ last_message_id \in {None, "msg_1", "msg_2"}
    /\ file \in {NoFile, OldFile}
    /\ agent = None
    /\ thread = "thread_1"
    /\ run = NoRun
    /\ status_count = 0
    /\ out = <<>>
    /\ calls = <<>>
    /\ posted = 0
    /\ agents = {}

\* fetch_and_print_new_agent_response(thread_id, agents_client, last_message_id)
\* where the fetch returns response.
CallDetector ==
    /\ pc = "call"
    /\ LET res == fetch_and_print_new_agent_response(response, last_message_id)
       IN /\ last_message_id' = res.ret
          /\ out' = out \o res.printed
    /\ calls' = Append(calls, Call("get_last_message_by_role", IdOf(response)))
    /\ pc' = "detector_returned"
    /\ UNCHANGED <<environ, agent, thread, run, status_count, response, final_message,
                   file, posted, agents>>

\* create_research_summary(final_message)
CallSummary ==
    /\ pc = "call"
    /\ LET res == create_research_summary(final_message, file)
       IN /\ file' = res.file
          /\ out' = out \o res.printed
          /\ calls' = IF res.opened THEN Append(calls, Call("open", DefaultPath)) ELSE calls
    /\ pc' = "summary_returned"
    /\ UNCHANGED <<environ, agent, thread, run, last_message_id, status_count, response,
                   final_message, posted, agents>>

NextUnit == CallDetector \/ CallSummary

InitAll == Init \/ InitUnit

NextAll == Next \/ NextUnit

\* The script, and the two helpers called directly on drawn arguments.
SpecAll == InitAll /\ [][NextAll]_vars

\* ------------------------------------------------------------- the claims

OfKind(seq, kinds) == SelectSeq(seq, LAMBDA e : e.kind \in kinds)
Count(seq, kind) == Len(OfKind(seq, {kind}))
CallsOf(ops) == SelectSeq(calls, LAMBDA c : c.op \in ops)

\* A step in which the detector ran: a tick's call, or a direct call.
DetectorStep ==
    \/ pc = "detect" /\ pc' = "report"
    \/ pc = "call" /\ pc' = "detector_returned"

\* What the console gained in a step.
Gained == SubSeq(out', Len(out) + 1, Len(out'))

\* C1: a detector call whose fetch returns no message, or a message whose id is
\* the last-seen id, returns the last-seen id unchanged and prints nothing; so a
\* tick that fetches the id the tick before fetched prints nothing either.
C1_NoOpOnRepeat ==
    [][(/\ DetectorStep
        /\ \/ response' = NoMessage
           \/ response'[1].id = last_message_id
           \/ pc = "detect" /\ status_count > 1 /\ IdOf(response') = IdOf(response))
       => (last_message_id' = last_message_id /\ out' = out)]_vars

\* Two ticks in a row fetched msg_1 and "new response" was logged once.
C1_Witness ==
    /\ pc = "report"
    /\ LET f == CallsOf({"get_last_message_by_role"})
       IN /\ Len(f) >= 2
          /\ f[Len(f)].ret = "msg_1"
          /\ f[Len(f) - 1].ret = "msg_1"
    /\ Count(out, "new_response") = 1

\* C2: a detector call whose fetch returns a message with an id other than the
\* last-seen id prints one "new response" log, one "Agent response:" header,
\* the text segments joined by a newline, then one "URL Citation" line per
\* annotation in the annotations' order, duplicates included, and returns the
\* message's id.
C2_PrintsNewMessage ==
    [][(/\ DetectorStep
        /\ response' # NoMessage
        /\ response'[1].id # last_message_id)
       => LET m == response'[1]
              anns == m.url_citation_annotations
          IN /\ last_message_id' = m.id
             /\ Len(Gained) = 3 + Len(anns)
             /\ Gained[1].kind = "new_response" /\ Gained[1].stamped
             /\ Gained[2].kind = "agent_response"
             /\ Gained[3].kind = "body"
             /\ Gained[3].text = Join(m.text_messages, <<"\n">>)
             /\ \A i \in 1..Len(anns) :
                    /\ Gained[3 + i].kind = "url_citation"
                    /\ Gained[3 + i].title = anns[i].title
                    /\ Gained[3 + i].url = anns[i].url]_vars

\* msg_2 was printed on a tick with its four citations, two urls twice each.
C2_Witness ==
    /\ pc = "report"
    /\ last_message_id = "msg_2"
    /\ Len(out) >= 4
    /\ LET n == Len(out)
       IN /\ out[n - 3].kind = "url_citation" /\ out[n - 3].url = "u1"
          /\ out[n - 2].kind = "url_citation" /\ out[n - 2].url = "u2"
          /\ out[n - 1].kind = "url_citation" /\ out[n - 1].url = "u1"
          /\ out[n].kind = "url_citation" /\ out[n].url = "u2"
          /\ out[n - 4].text = <<" ", "b", "\n", "\n", "c", " ">>

\* The run statuses fetched so far: create_run's, then each get_run's.
StatusCalls == CallsOf({"create_run", "get_run"})

\* The statements after the polling loop.
AfterLoop == {"check_failed", "final_fetch", "summary", "delete_agent", "done"}

\* C3: once create_run or get_run has returned a status other than queued and
\* in_progress, no sleep and no get_run follows (none at all when create_run
\* returned it); and the loop is left only with such a status fetched last.
C3_LoopEndsOnTerminalStatus ==
    /\ LET polls == CallsOf({"create_run", "sleep", "get_run"})
       IN \A i \in 1..Len(polls) :
            (polls[i].op # "sleep" /\ polls[i].ret \notin {"queued", "in_progress"})
                => i = Len(polls)
    /\ pc \in AfterLoop =>
        /\ StatusCalls # <<>>
        /\ StatusCalls[Len(StatusCalls)].ret \notin {"queued", "in_progress", "raised"}
        /\ StatusCalls[Len(StatusCalls)].ret = run.status
    /\ (StatusCalls # <<>> /\ StatusCalls[1].ret \notin {"queued", "in_progress"})
        => (status_count = 0 /\ Len(StatusCalls) = 1 /\ CallsOf({"sleep"}) = <<>>)

\* The loop was left after three ticks, the third get_run returning "expired".
C3_Witness ==
    /\ pc = "done"
    /\ Len(StatusCalls) = 4
    /\ StatusCalls[3].ret = "in_progress"
    /\ StatusCalls[4].ret = "expired"
    /\ Len(CallsOf({"sleep"})) = 3

\* The progress lines printed so far, one per completed tick.
TickLines == OfKind(out, {"heartbeat", "run_status"})

\* C4: the line of tick k is the timestamped heartbeat line when k is a multiple
\* of 10 and the plain "Run status" line otherwise, the last tick included; so
\* after N ticks there are N div 10 heartbeat lines and N - N div 10 plain lines.
C4_HeartbeatEveryTenth ==
    /\ \A k \in 1..Len(TickLines) :
        /\ (TickLines[k].kind = "heartbeat") <=> (k % 10 = 0)
        /\ TickLines[k].stamped <=> (k % 10 = 0)
        /\ TickLines[k].kind = "heartbeat" => TickLines[k].n = k
    /\ pc \in {"loop_test", "get_run", "incr"} \cup AfterLoop =>
        /\ Len(TickLines) = status_count
        /\ Count(out, "heartbeat") = status_count \div 10
        /\ Count(out, "run_status") = status_count - (status_count \div 10)
    /\ pc \in AfterLoop /\ status_count > 0 =>
        TickLines[status_count].arg = run.status

\* Twenty ticks, the twentieth fetching "completed": two heartbeat lines, the
\* second of them the last tick's.
C4_Witness ==
    /\ pc = "done"
    /\ status_count = 20
    /\ Count(out, "heartbeat") = 2
    /\ TickLines[20].kind = "heartbeat"
    /\ TickLines[20].arg = "completed"

\* create_research_summary has written the file from final_message.
SummaryWritten ==
    /\ final_message # NoMessage
    /\ pc \in {"summary_returned", "delete_agent", "done"}

FinalAnns == final_message[1].url_citation_annotations

\* The reference entries of the file, in order.
FileRefs == OfKind(file.content, {"ref"})

\* The first annotation with the url.
FirstWithUrl(anns, url) ==
    CHOOSE i \in 1..Len(anns) :
        anns[i].url = url /\ \A j \in 1..(i - 1) : anns[j].url # url

\* C5: the reference entries written hold each distinct url of the annotations
\* once, in order of first occurrence, are no more than the annotations, and
\* each carries the title of its url's first annotation (the url when that
\* annotation has no title).
C5_ReferencesUniqueByUrl ==
    SummaryWritten =>
        /\ Len(FileRefs) <= Len(FinalAnns)
        /\ {FileRefs[i].url : i \in 1..Len(FileRefs)}
            = {FinalAnns[i].url : i \in 1..Len(FinalAnns)}
        /\ \A i, j \in 1..Len(FileRefs) :
            i < j => /\ FileRefs[i].url # FileRefs[j].url
                     /\ FirstWithUrl(FinalAnns, FileRefs[i].url)
                            < FirstWithUrl(FinalAnns, FileRefs[j].url)
        /\ \A i \in 1..Len(FileRefs) :
            LET first == FinalAnns[FirstWithUrl(FinalAnns, FileRefs[i].url)]
            IN FileRefs[i].title =
                (IF first.title \in {None, ""} THEN first.url ELSE first.title)

\* u1 cited twice with different titles, then u2 without a title.
C5_Witness ==
    /\ pc = "summary_returned"
    /\ final_message # NoMessage
    /\ FinalAnns = <<Ann("t1", "u1"), Ann("t2", "u1"), Ann(None, "u2")>>
    /\ Len(FileRefs) = 2
    /\ FileRefs[1].title = "t1"
    /\ FileRefs[2].title = "u2"

\* C6: the file holds the "## References" heading exactly when the message has
\* at least one distinct cited url, right after the body; with no annotations
\* the file holds the body alone.
C6_HeadingIffCitations ==
    SummaryWritten =>
        /\ file.exists
        /\ Count(file.content, "heading") =
            (IF {FinalAnns[i].url : i \in 1..Len(FinalAnns)} # {} THEN 1 ELSE 0)
        /\ Count(file.content, "body") = 1
        /\ file.content[1].kind = "body"
        /\ Len(file.content) > 1 =>
            /\ file.content[2].kind = "heading"
            /\ file.content[2].title = "## References"
            /\ Len(file.content) = 2 + Len(FileRefs)
        /\ FinalAnns = <<>> => Len(file.content) = 1

\* A message without annotations was written over an existing file.
C6_Witness ==
    /\ pc = "summary_returned"
    /\ final_message # NoMessage
    /\ FinalAnns = <<>>
    /\ final_message[1].text_messages # <<>>
    /\ Len(file.content) = 1
    /\ file.content[1].text = <<"a", "\n", "\n", "b">>

\* What the run and the thread returned, in call order.
Fetches == CallsOf({"create_run", "get_run", "get_last_message_by_role"})

\* The summary file of the k-th agent message of the thread, written out.
ExpectedContent(k) ==
    CASE k % 3 = 1 -> <<Chunk("body", <<"a">>, "", "")>>
      [] k % 3 = 2 -> <<Chunk("body", <<"b", "\n", "\n", "c">>, "", ""),
                        Chunk("heading", <<>>, "## References", ""),
                        Chunk("ref", <<>>, "t1", "u1"),
                        Chunk("ref", <<>>, "u2", "u2")>>
      [] OTHER     -> <<Chunk("body", <<>>, "", ""),
                        Chunk("heading", <<>>, "## References", ""),
                        Chunk("ref", <<>>, "u3", "u3")>>

\* Scenario A with the k-th message as M: created queued; in_progress,
\* in_progress, completed; no message until the third tick, M from then on.
ScenarioA(k) ==
    /\ pc = "done"
    /\ Fetches = <<Call("create_run", "queued"),
                   Call("get_run", "in_progress"),
                   Call("get_last_message_by_role", None),
                   Call("get_run", "in_progress"),
                   Call("get_last_message_by_role", None),
                   Call("get_run", "completed"),
                   Call("get_last_message_by_role", "msg_" \o ToString(k)),
                   Call("get_last_message_by_role", "msg_" \o ToString(k))>>

KindsOf(seq) == [i \in 1..Len(seq) |-> seq[i].kind]

\* C7: in scenario A one "Agent response" block is printed, for M and on the
\* third tick; then the file is written with M's stripped body and M's
\* references, unique by url; then the agent is deleted.
C7_ScenarioA ==
    \A k \in 1..MaxMsgs :
        ScenarioA(k) =>
            /\ KindsOf(OfKind(out, {"run_status", "heartbeat", "new_response",
                                    "agent_response", "body", "summary_written",
                                    "agent_deleted"}))
                = <<"run_status", "run_status", "new_response", "agent_response",
                    "body", "run_status", "summary_written", "agent_deleted">>
            /\ OfKind(out, {"body"})[1].text = Join(AgentTexts(k), <<"\n">>)
            /\ file = [exists |-> TRUE, content |-> ExpectedContent(k)]
            /\ SubSeq(calls, Len(calls) - 1, Len(calls))
                = <<Call("open", "research_summary.md"), Call("delete_agent", "asst_1")>>
            /\ agents = {}

\* Scenario A ran to the end with msg_2 as M.
C7_Witness == ScenarioA(2) /\ file.exists /\ Len(file.content) = 4

\* Scenario B: the first get_run returns failed, the thread never holds an
\* agent message.
ScenarioB ==
    /\ pc = "done"
    /\ Len(Fetches) = 4
    /\ Fetches[1].op = "create_run" /\ Fetches[1].ret \in {"queued", "in_progress"}
    /\ Fetches[2] = Call("get_run", "failed")
    /\ Fetches[3] = Call("get_last_message_by_role", None)
    /\ Fetches[4] = Call("get_last_message_by_role", None)

\* C8: in scenario B the failure is logged with the run's last error, no "Agent
\* response" block is printed, no file is written and the agent is deleted.
C8_ScenarioB ==
    ScenarioB =>
        /\ Count(out, "run_failed") = 1
        /\ OfKind(out, {"run_failed"})[1].arg = run.last_error
        /\ OfKind(out, {"run_failed"})[1].arg \in {"rate_limit_exceeded", "server_error"}
        /\ OfKind(out, {"run_failed"})[1].stamped
        /\ Count(out, "agent_response") = 0
        /\ Count(out, "summary_written") = 0
        /\ CallsOf({"open"}) = <<>>
        /\ file \in {NoFile, OldFile}
        /\ calls[Len(calls)] = Call("delete_agent", "asst_1")
        /\ agents = {}

\* Scenario B ran to the end, the run failing with "server_error".
C8_Witness == ScenarioB /\ run.last_error = "server_error" /\ file = NoFile

\* C9: the last error is logged exactly when the final status is failed; with
\* any terminal status the final fetch follows, and when it returns a message
\* the summary is written from it.
C9_FailedIsNotAnAbort ==
    /\ pc \in {"final_fetch", "summary", "delete_agent", "done"} =>
        /\ Count(out, "run_failed") = (IF run.status = "failed" THEN 1 ELSE 0)
        /\ run.status = "failed" =>
            /\ OfKind(out, {"run_failed"})[1].arg = run.last_error
            /\ run.last_error \in {"rate_limit_exceeded", "server_error"}
    /\ pc \in {"summary", "delete_agent", "done"} =>
        /\ Len(CallsOf({"get_last_message_by_role"})) = status_count + 1
        /\ LET remote == CallsOf({"create_run", "sleep", "get_run",
                                  "get_last_message_by_role"})
           IN remote[Len(remote)]
                = Call("get_last_message_by_role", IdOf(final_message))
    /\ pc \in {"delete_agent", "done"} /\ final_message # NoMessage =>
        /\ final_message = <<AgentMessage(posted)>>
        /\ file = [exists |-> TRUE, content |-> ExpectedContent(posted)]
        /\ Count(out, "summary_written") = 1

\* A failed run whose thread held msg_2: error logged, summary written.
C9_Witness ==
    /\ pc = "done"
    /\ run.status = "failed"
    /\ Count(out, "run_failed") = 1
    /\ IdOf(final_message) = "msg_2"
    /\ file.content = ExpectedContent(2)

\* create_research_summary called with no message: the warning, no file write.
DirectCallWithoutMessage ==
    (pc = "call" /\ pc' = "summary_returned" /\ final_message = NoMessage)
        => /\ file' = file
           /\ calls' = calls
           /\ KindsOf(Gained) = <<"no_message_warning">>

\* C10 as claimed: with no final message the outcome is logged, no file is
\* created or overwritten and the script goes on to the deletion; and
\* create_research_summary called with no message warns and writes nothing.
C10_AsClaimed ==
    [][/\ (pc = "summary" /\ final_message = NoMessage)
            => /\ pc' = "delete_agent"
               /\ file' = file
               /\ Len(out') > Len(out)
       /\ DirectCallWithoutMessage]_vars

\* C10 (amended): with no final message the script prints nothing about it,
\* does not call create_research_summary, creates and overwrites no file, and
\* goes on to the deletion; create_research_summary called with no message
\* warns and writes nothing.
C10_NoFinalMessage ==
    [][/\ (pc = "summary" /\ final_message = NoMessage)
            => /\ pc' = "delete_agent"
               /\ file' = file
               /\ calls' = calls
               /\ out' = out
       /\ DirectCallWithoutMessage]_vars

\* A completed run without any agent message ended with the old file untouched.
C10_Witness ==
    /\ pc = "done"
    /\ run.status = "completed"
    /\ final_message = NoMessage
    /\ file = OldFile
    /\ out[Len(out) - 1].kind = "fetching_final"
    /\ out[Len(out)].kind = "agent_deleted"

\* ----------------------------------------------------------------- C12

Deletes == CallsOf({"delete_agent"})

\* Some call of these operations raised.
Raised(ops) == \E i \in 1..Len(calls) : calls[i].op \in ops /\ calls[i].ret = "raised"

\* C12: an invocation that ends with no call and no write failing has called
\* delete_agent exactly once, on the created agent and as its last call, after
\* every poll, the final fetch and the summary step, whatever the run's status
\* and whether or not a final message exists; before that point delete_agent
\* has not been called; and an invocation ended by a failing get_run, message
\* fetch or file write has never called it and leaves the agent in existence.
C12_DeleteOnlyOnHappyPath ==
    /\ pc = "done" =>
        /\ Deletes = <<Call("delete_agent", "asst_1")>>
        /\ calls[Len(calls)] = Call("delete_agent", "asst_1")
        /\ agent = "asst_1" /\ agents = {}
    /\ pc \in {"loop_test", "get_run", "incr", "detect", "report", "check_failed",
               "final_fetch", "summary", "delete_agent"} => Deletes = <<>>
    /\ (pc = "aborted" /\ Raised({"get_run", "get_last_message_by_role", "open"})) =>
        /\ Deletes = <<>>
        /\ agent = "asst_1" /\ agents = {"asst_1"}

\* An invocation whose run expired and whose thread has no agent message has
\* deleted its agent.
C12_Witness ==
    /\ pc = "done"
    /\ run.status = "expired"
    /\ final_message = NoMessage
    /\ Len(Deletes) = 1

\* ----------------------------------------------------------------- C15

\* C15: a tick prints at most one "Agent response" block, and the block it
\* prints is that of the newest agent message of the thread at the tick's
\* fetch, whose id becomes the last-seen id; no other step of the script prints
\* such a block. So a message that was overtaken before a tick fetched it is
\* never printed.
C15_OnlyTheLatestPerTick ==
    [][/\ Len(OfKind(Gained, {"agent_response"})) <= 1
       /\ Len(OfKind(Gained, {"agent_response"})) = 1 =>
            /\ pc = "detect" /\ pc' = "report"
            /\ posted' >= 1
            /\ last_message_id' = "msg_" \o ToString(posted')
            /\ OfKind(Gained, {"body"}) = <<BodyLine(AgentTexts(posted'))>>
            /\ OfKind(Gained, {"url_citation"}) = CitationLines(AgentAnns(posted'))
       /\ (pc = "detect" /\ pc' = "report") => posted' >= posted]_vars

\* Two agent messages arrived before a tick's fetch: the only block so far is msg_2's.
C15_Witness ==
    /\ pc = "report"
    /\ posted = 2
    /\ last_message_id = "msg_2"
    /\ Count(out, "agent_response") = 1
    /\ CallsOf({"get_last_message_by_role"})[1].ret = "msg_2"

\* ----------------------------------------------------------------- C16

\* The statements of the polling loop.
InLoop == {"loop_test", "get_run", "incr", "detect", "report"}

\* The calls of these operations that returned.
Returned(ops) == SelectSeq(calls, LAMBDA c : c.op \in ops /\ c.ret # "raised")

\* The calls of the ticks: everything between create_run and the final fetch.
TickCalls == SelectSeq(calls, LAMBDA c : c.op \in {"sleep", "get_run", "get_last_message_by_role"})

\* C16 as claimed: at every point of the loop the tick count equals the number
\* of get_run calls issued so far.
C16_AsClaimed ==
    pc \in InLoop => status_count = Len(CallsOf({"get_run"}))

\* C16: the tick count is 0 until the loop starts, changes only by the
\* increment, which adds exactly 1, once per iteration; it equals the number of
\* get_run calls that have returned, except between a get_run call and the
\* increment that follows it, where it is one less. Between iterations it also
\* equals the number of sleeps, of detector calls and of status lines, and the
\* calls of the ticks are sleep, get_run, detector fetch, in that order, the
\* status line of a tick following its detector call.
C16_TickCount ==
    /\ [](status_count =
            Len(Returned({"get_run"})) - (IF pc = "incr" THEN 1 ELSE 0))
    /\ [](pc \in {"client", "bing_connection", "resolve_connection", "tool",
                  "create_agent", "create_thread", "create_message", "create_run"}
            => status_count = 0)
    /\ [](pc \in InLoop =>
            /\ Len(CallsOf({"sleep"})) =
                 status_count + (IF pc \in {"get_run", "incr"} THEN 1 ELSE 0)
            /\ Len(CallsOf({"get_last_message_by_role"})) =
                 status_count - (IF pc = "detect" THEN 1 ELSE 0)
            /\ Len(TickLines) =
                 status_count - (IF pc \in {"detect", "report"} THEN 1 ELSE 0)
            /\ \A i \in 1..Len(TickCalls) :
                 TickCalls[i].op = CASE i % 3 = 1 -> "sleep"
                                     [] i % 3 = 2 -> "get_run"
                                     [] OTHER     -> "get_last_message_by_role")
    /\ [][\/ status_count' = status_count
          \/ pc = "incr" /\ pc' = "detect" /\ status_count' = status_count + 1]_vars

\* The third get_run has returned and the count is still 2.
C16_Witness ==
    /\ pc = "incr"
    /\ status_count = 2
    /\ Len(CallsOf({"get_run"})) = 3

\* ----------------------------------------------------------------- C17

\* The collaborator operations that create, change or delete something remote.
Mutations == {"create_agent", "create_thread", "create_message", "create_run",
              "delete_agent"}

\* C17: one run at most is created, exactly one once the loop is reached; after
\* create_run the only collaborator calls are get_run and
\* get_last_message_by_role, until delete_agent, which is the last call; from
\* the loop to the summary step no agent or thread is created or deleted; and
\* the local run changes only by being assigned what create_run or get_run
\* returned.
C17_PollingOnlyReads ==
    /\ [](/\ Len(CallsOf({"create_run"})) <= 1
          /\ pc \in InLoop \cup AfterLoop => Len(Returned({"create_run"})) = 1
          /\ CallsOf({"create_run"}) # <<>> =>
                LET i == CHOOSE k \in 1..Len(calls) : calls[k].op = "create_run"
                IN \A j \in (i + 1)..Len(calls) :
                    /\ calls[j].op \in {"sleep", "get_run", "get_last_message_by_role",
                                        "open", "delete_agent"}
                    /\ calls[j].op = "delete_agent" => j = Len(calls))
    /\ [][/\ pc \in InLoop \cup {"check_failed", "final_fetch", "summary"} =>
                /\ agents' = agents /\ agent' = agent /\ thread' = thread
                /\ \A c \in {calls'[i] : i \in (Len(calls) + 1)..Len(calls')} :
                        c.op \notin Mutations
          /\ run' # run =>
                /\ pc \in {"create_run", "get_run"}
                /\ run'.id = "run_1"
                /\ calls' = Append(calls, Call(pc, run'.status))]_vars

\* After two ticks and a final fetch that found a message, the agent is about
\* to be deleted.
C17_Witness ==
    /\ pc = "delete_agent"
    /\ status_count = 2
    /\ final_message # NoMessage
    /\ Len(CallsOf({"get_run"})) = 2

\* ----------------------------------------------------------------- C19

\* What the detector's fetches returned, tick by tick (the loop's statements
\* and those up to the final fetch: every fetch so far was a detector's).
DetectorFetches == Returned({"get_last_message_by_role"})

\* The ticks whose fetch returned a message other than the one seen before.
NewIdTicks ==
    {i \in 1..Len(DetectorFetches) :
        /\ DetectorFetches[i].ret # "None"
        /\ i > 1 => DetectorFetches[i].ret # DetectorFetches[i - 1].ret}

\* C19: in the loop and up to the final fetch, last_message_id is None exactly
\* when no "Agent response" block has been printed; otherwise it is the id of
\* the message whose block was printed last, which is the last id a fetch
\* returned; the number of blocks is the number of ticks whose fetch returned
\* an id other than None and other than the id seen before. A detector call
\* whose fetch returns no message leaves last_message_id as it was, and once
\* other than None it stays so.
C19_LastSeenIsLastPrinted ==
    /\ [](pc \in InLoop \cup {"check_failed", "final_fetch"} =>
            LET bodies == OfKind(out, {"body"})
            IN /\ (last_message_id = "None") <=> (Count(out, "agent_response") = 0)
               /\ Len(bodies) = Count(out, "agent_response")
               /\ Count(out, "agent_response") = Cardinality(NewIdTicks)
               /\ last_message_id # "None" =>
                    /\ \E k \in 1..posted :
                        /\ last_message_id = "msg_" \o ToString(k)
                        /\ bodies[Len(bodies)] = BodyLine(AgentTexts(k))
                    /\ \E i \in NewIdTicks :
                        /\ DetectorFetches[i].ret = last_message_id
                        /\ \A j \in NewIdTicks : j <= i)
    /\ [][/\ (DetectorStep /\ response' = NoMessage) => last_message_id' = last_message_id
          /\ last_message_id # "None" => last_message_id' # "None"]_vars

\* Four ticks: no message, msg_1, msg_1 again, msg_2; two blocks were printed.
C19_Witness ==
    /\ pc = "report"
    /\ status_count = 4
    /\ last_message_id = "msg_2"
    /\ Count(out, "agent_response") = 2
    /\ [i \in 1..4 |-> DetectorFetches[i].ret] = <<"None", "msg_1", "msg_1", "msg_2">>

\* ----------------------------------------------------------------- C20

\* The summary step of an invocation wrote the file.
SummaryDone == final_message # NoMessage /\ pc \in {"delete_agent", "done"}

\* C20 as claimed: the message written to the file is the one whose id is
\* last_message_id at loop exit.
C20_AsClaimed ==
    SummaryDone => IdOf(final_message) = last_message_id

\* C20: the message written to the file is the newest agent message of the
\* thread at the final fetch; its id is last_message_id only when there was a
\* tick and the last tick's fetch returned that same message.
C20_PersistsFinalFetch ==
    SummaryDone =>
        LET fetched == Returned({"get_last_message_by_role"})
            n == Len(fetched)
        IN /\ posted >= 1
           /\ IdOf(final_message) = "msg_" \o ToString(posted)
           /\ fetched[n].ret = IdOf(final_message)
           /\ file = [exists |-> TRUE, content |-> ExpectedContent(posted)]
           /\ (IdOf(final_message) = last_message_id)
                <=> (n >= 2 /\ fetched[n - 1].ret = fetched[n].ret)

\* The run was created already completed: no tick, no block printed, and the
\* file holds msg_1.
C20_Witness ==
    /\ pc = "done"
    /\ status_count = 0
    /\ last_message_id = "None"
    /\ Count(out, "agent_response") = 0
    /\ IdOf(final_message) = "msg_1"
    /\ file.content = ExpectedContent(1)

\* ----------------------------------------------------------------- C18

\* C18: the statements after the loop are reached only with a fetched status
\* other than queued and in_progress, however many ticks have passed, and while
\* the fetched status is queued or in_progress the loop goes on to another
\* tick; once a status other than these two has been fetched, the loop is left
\* and the invocation reaches delete_agent unless a call or the file write
\* raises; and delete_agent ends the invocation.
C18_LoopEndsOnlyOnStatus ==
    /\ [](pc \in AfterLoop => run.status \notin {"queued", "in_progress"})
    /\ [](pc \in InLoop \ {"loop_test"} =>
            StatusCalls[Len(StatusCalls) - (IF pc = "get_run" THEN 0 ELSE 1)].ret
                \in {"queued", "in_progress"})
    /\ (\/ pc = "loop_test" /\ status_count < TickLimit
        \/ pc \in {"check_failed", "final_fetch", "summary", "delete_agent"})
         ~> (\/ pc = "get_run" /\ run.status \in {"queued", "in_progress"}
             \/ pc = "done" /\ calls[Len(calls)].op = "delete_agent"
             \/ pc = "aborted")

\* The run completed on the fifth tick and the invocation ended normally.
C18_Witness ==
    /\ pc = "done"
    /\ status_count = 5
    /\ run.status = "completed"
    /\ ~Raised({"get_run", "get_last_message_by_role", "open", "delete_agent"})

\* ----------------------------------------------------------------- C14

\* The synchronous script has every value it requires: the endpoint, both model
\* names, and a connection id that is not blank or else a resource name.
SyncConfigured ==
    /\ Has("PROJECT_ENDPOINT")
    /\ Has("MODEL_DEPLOYMENT_NAME")
    /\ Has("DEEP_RESEARCH_MODEL_DEPLOYMENT_NAME")
    /\ HasConnectionId \/ Has("BING_RESOURCE_NAME")

\* The asynchronous script has every value it requires.
AsyncConfigured ==
    {"PROJECT_ENDPOINT", "MODEL_DEPLOYMENT_NAME", "DEEP_RESEARCH_MODEL_DEPLOYMENT_NAME",
     "AZURE_BING_CONNECTION_ID"} \subseteq DOMAIN environ

Creations == {"create_agent", "create_thread", "create_message", "create_run"}

\* C14: with a required value absent, the synchronous script never gets past
\* the create_agent statement and issues none of create_agent, create_thread,
\* create_message, create_run: it is in its start-up, where a statement can
\* still execute, or has ended by an uncaught KeyError or by exit(1); and the
\* asynchronous script, started in the same environment, ends by an uncaught
\* KeyError in its start-up or at the create_agent statement, no call issued.
C14_MissingValueIsFatalBeforeCreation ==
    /\ ~SyncConfigured =>
        /\ pc \in {"client", "bing_connection", "resolve_connection", "tool",
                   "create_agent", "aborted", "exited"}
        /\ CallsOf(Creations) = <<>>
        /\ agents = {} /\ agent = "None" /\ thread = "None" /\ run = NoRun
        /\ pc = "create_agent" => ~Has("MODEL_DEPLOYMENT_NAME")
        /\ pc \notin {"aborted", "exited"} => ENABLED Next
    /\ (~AsyncConfigured /\ pc = "client") =>
        LET a == AsyncStartup(AsyncInit(environ, file))
        IN /\ a.calls = <<>> /\ a.agents = {}
           /\ \/ a.pc = "aborted"
              \/ /\ a.pc = "create_agent"
                 /\ AsyncNext(a) = {[a EXCEPT !.pc = "aborted"]}

\* Only MODEL_DEPLOYMENT_NAME is absent: the script ended at the create_agent
\* statement, before the call.
C14_Witness ==
    /\ pc = "aborted"
    /\ DOMAIN environ = Keys \ {"MODEL_DEPLOYMENT_NAME"}
    /\ calls = <<>>
    /\ agents = {}
    /\ Len(out) = 1

\* ----------------------------------------------------------------- C11

\* The statements from create_agent to delete_agent.
Body == {"create_agent", "create_thread", "create_message", "create_run"}
        \cup InLoop \cup {"check_failed", "final_fetch", "summary", "delete_agent"}

\* The state of the synchronous script taken as a state of main(): the same
\* statement, locals, file and remote state, and the console lines and calls
\* so far, to which the statements from create_agent on only append.
AsyncView ==
    [pc |-> pc, agent |-> agent, thread |-> thread, run |-> run,
     last_message_id |-> last_message_id, status_count |-> status_count,
     response |-> response, final_message |-> final_message, out |-> out,
     calls |-> calls, file |-> file, posted |-> posted, agents |-> agents,
     environ |-> environ]

\* The step leads the synchronous script to the state t of main().
StepTo(t) ==
    /\ pc' = t.pc /\ agent' = t.agent /\ thread' = t.thread /\ run' = t.run
    /\ last_message_id' = t.last_message_id /\ status_count' = t.status_count
    /\ response' = t.response /\ final_message' = t.final_message
    /\ out' = t.out /\ calls' = t.calls /\ file' = t.file
    /\ posted' = t.posted /\ agents' = t.agents /\ environ' = t.environ

\* C11: when both scripts have the values they require, from the create_agent
\* statement on every step of the synchronous script is a step of main() and
\* every step of main() is a step of the synchronous script, for every
\* collaborator response: after the same responses the two have issued the same
\* calls and printed the same lines in the same order, written the same file
\* or none, and deleted the agent alike.
C11_SyncAndAsyncAgree ==
    /\ [][(pc \in Body /\ AsyncConfigured) =>
            \E t \in AsyncNext(AsyncView) : StepTo(t)]_vars
    /\ []((pc \in Body /\ AsyncConfigured) =>
            \A t \in AsyncNext(AsyncView) : ENABLED (Next /\ StepTo(t)))

\* A failed run with a printed message and a written file, the agent deleted.
C11_Witness ==
    /\ pc = "done"
    /\ AsyncConfigured
    /\ run.status = "failed"
    /\ status_count >= 2
    /\ Count(out, "agent_response") >= 1
    /\ file.exists /\ final_message # NoMessage

\* ----------------------------------------------------------------- C13

\* The lines of the two scripts that report a failure of the invocation.
FailureLines ==
    {"connection_not_found", "connection_lookup_failed", "connection_hint_portal",
     "connection_hint_path"}

\* C13 as claimed: an invocation ended by a failure has logged a timestamped
\* line about the failure, the last line of its console.
C13_AsClaimed ==
    pc \in {"aborted", "exited"} =>
        /\ out # <<>>
        /\ out[Len(out)].stamped
        /\ out[Len(out)].kind \in FailureLines

\* The lines a statement logs before the call or write that may then raise.
LinesBeforeCall == {"fetching_final", "creating_summary", "tool_init"}

\* C13: only the failures of the synchronous script's connection look-up are
\* logged: it ends by exit(1) after the timestamped "not found" line or the
\* three timestamped lines of the except clause. A step that ends either
\* script by an exception (an absent value read outside the look-up, a failing
\* collaborator call, a failing file write) prints no line about the failure:
\* at most the line logged before the call was made.
C13_OnlyLookupFailuresLogged ==
    /\ [](pc = "exited" =>
            /\ out[Len(out)].stamped
            /\ \/ out[Len(out)].kind = "connection_not_found"
               \/ /\ Len(out) >= 3
                  /\ SubSeq(out, Len(out) - 2, Len(out)) = ResolutionFailedLog)
    /\ [][pc' = "aborted" => \A i \in 1..Len(Gained) : Gained[i].kind \in LinesBeforeCall]_vars
    /\ [](pc = "client" =>
            LET a == AsyncStartup(AsyncInit(environ, file))
            IN a.pc = "aborted" =>
                \A i \in 1..Len(a.out) : a.out[i].kind \in {"async_start", "client_ready",
                                                           "tool_init"})
    /\ [](\A t \in AsyncKeyErrorEscapes(AsyncView) \cup AsyncRemoteCallFails(AsyncView)
                    \cup AsyncFileWriteFails(AsyncView) :
            /\ t.pc = "aborted"
            /\ SubSeq(t.out, 1, Len(out)) = out
            /\ \A i \in (Len(out) + 1)..Len(t.out) : t.out[i].kind \in LinesBeforeCall)

\* get_run raised on the second tick: the last line of the console is the plain
\* status line of the first.
C13_Witness ==
    /\ pc = "aborted"
    /\ status_count = 1
    /\ calls[Len(calls)] = Call("get_run", "raised")
    /\ out[Len(out)].kind = "run_status"
    /\ ~out[Len(out)].stamped

====
